---- MODULE Spec2Model ----
(***************************************************************************)
(* Model of cth_mts_biax/xml_to_hdf5.py: the streaming reader get_data,    *)
(* the reducer reduce_data and the compensation step compensate.           *)
(*                                                                         *)
(* Three specifications share the module's variables:                      *)
(*   SpecScan   - get_data, one step per line of the xml file              *)
(*   SpecReduce - reduce_data, one call on a raw dataset                   *)
(*   SpecComp   - compensate, one call on a reduced dataset                *)
(***************************************************************************)
EXTENDS Integers, Sequences, FiniteSets, TLC

VARIABLES
    \* ---- get_data ----
    stream,      \* the lines of file + '.xml'
    max_lines,   \* the max_lines in force after lines 73-79 (Inf when None was given)
    pc,          \* position of get_data: "preamble", "signals", "body", "done", "failed"
    pos,         \* index of the next line the file iterator xml yields
    names,       \* list of signal names, in declaration order
    units,       \* dict name -> unit string
    data,        \* dict name -> list of values
    name_ind,    \* index (0-based) of the channel the next value goes to
    row_count,   \* number of <Scan> lines consumed
    error,       \* the exception that ended get_data ("" when none)
    \* ---- reduce_data ----
    rd_pc,       \* "call" before reduce_data runs, "return" after, "idle" elsewhere
    rd_in,       \* the arguments of reduce_data
    rd_out,      \* what reduce_data returned or raised
    \* ---- compensate ----
    cp_pc,       \* "call" before compensate runs, "return" after, "idle" elsewhere
    cp_in,       \* the arguments of compensate as the caller built them
    cp_data,     \* the caller's data dict (the object passed as data)
    cp_out,      \* what compensate returned or raised
    cp_again     \* what compensate returned or raised when applied to its own result

scan_vars == <<stream, max_lines, pc, pos, names, units, data, name_ind, row_count, error>>
rd_vars == <<rd_pc, rd_in, rd_out>>
cp_vars == <<cp_pc, cp_in, cp_data, cp_out, cp_again>>
vars == <<scan_vars, rd_vars, cp_vars>>

\* ------------------------------------------------------------------------
\* Bounds of the model
\* ------------------------------------------------------------------------
MaxBody == 5     \* lines after </Signals>
MaxLimit == 2    \* largest max_lines argument tried
MaxSamples == 3  \* samples per channel of a raw or reduced dataset

\* ------------------------------------------------------------------------
\* Python dicts: functions whose DOMAIN is the key set
\* ------------------------------------------------------------------------
EmptyDict == [k \in {} |-> 0]

Put(d, k, v) == [x \in (DOMAIN d) \cup {k} |-> IF x = k THEN v ELSE d[x]]

Range(s) == {s[i] : i \in DOMAIN s}

\* ------------------------------------------------------------------------
\* Floating point numbers, as exact fractions [n, d] in lowest terms with
\* d > 0, extended by the values numpy yields on division by zero:
\* inf = 1/0, -inf = -1/0 and nan = 0/0
\* ------------------------------------------------------------------------
Abs(x) == IF x < 0 THEN -x ELSE x

RECURSIVE GCD(_, _)
GCD(a, b) == IF b = 0 THEN a ELSE GCD(b, a % b)

Sgn(x) == IF x > 0 THEN 1 ELSE IF x < 0 THEN -1 ELSE 0

Frac(n, d) ==
    IF d = 0 THEN [n |-> Sgn(n), d |-> 0]
    ELSE LET g == GCD(Abs(n), Abs(d))
         IN  [n |-> Sgn(d) * (n \div g), d |-> Abs(d) \div g]

Num(k) == [n |-> k, d |-> 1]
NaN == [n |-> 0, d |-> 0]
IsNaN(x) == x.d = 0 /\ x.n = 0
IsFinite(x) == x.d # 0

RNeg(x) == [n |-> -x.n, d |-> x.d]
RMul(x, y) == Frac(x.n * y.n, x.d * y.d)
\* numpy float division: x/0 is inf, -inf or nan, never an exception
RDiv(x, y) ==
    IF IsNaN(x) \/ IsNaN(y) \/ (x.d = 0 /\ y.d = 0) THEN NaN
    ELSE IF y.n = 0 THEN Frac(x.n, 0)
    ELSE Frac(x.n * y.d * Sgn(y.n), x.d * Abs(y.n))
RAdd(x, y) ==
    IF x.d # 0 /\ y.d # 0
    THEN LET g == GCD(x.d, y.d)
         IN  Frac(x.n * (y.d \div g) + y.n * (x.d \div g), (x.d \div g) * y.d)
    ELSE IF IsNaN(x) \/ IsNaN(y) \/ (x.d = 0 /\ y.d = 0 /\ x.n # y.n) THEN NaN
    ELSE IF x.d = 0 THEN x ELSE y
RSub(x, y) == RAdd(x, RNeg(y))
\* x > y; any comparison with nan is False
RGt(x, y) ==
    IF IsNaN(x) \/ IsNaN(y) THEN FALSE
    ELSE IF x.d # 0 /\ y.d # 0
    THEN LET g == GCD(x.d, y.d)
         IN  x.n * (y.d \div g) > y.n * (x.d \div g)
    ELSE IF x.d = 0 /\ y.d = 0 THEN x.n > y.n
    ELSE IF x.d = 0 THEN x.n > 0 ELSE y.n < 0
\* np.sign: -1, 0, 1, and nan for nan
RSign(x) == IF IsNaN(x) THEN NaN ELSE Num(Sgn(x.n))

\* numpy arrays are sequences; the operations below are element by element
ArrAdd(a, b) == [i \in 1..Len(a) |-> RAdd(a[i], b[i])]
ArrSub(a, b) == [i \in 1..Len(a) |-> RSub(a[i], b[i])]
ArrAddScalar(a, x) == [i \in 1..Len(a) |-> RAdd(a[i], x)]
ArrScale(x, a) == [i \in 1..Len(a) |-> RMul(x, a[i])]
ArrDivScalar(a, x) == [i \in 1..Len(a) |-> RDiv(a[i], x)]
ArrGt(a, b) == [i \in 1..Len(a) |-> RGt(a[i], b[i])]
\* a[1:] and a[:-1]
SliceFrom1(a) == IF Len(a) = 0 THEN <<>> ELSE Tail(a)
SliceButLast(a) == IF Len(a) = 0 THEN <<>> ELSE SubSeq(a, 1, Len(a) - 1)
\* np.where(b)[0]: the 0-based positions of the True entries, ascending
np_where(b) == SelectSeq([i \in 1..Len(b) |-> i - 1], LAMBDA k : b[k + 1])

\* ------------------------------------------------------------------------
\* Python str: a sequence of characters; the characters outside ASCII are
\* written by their code point
\* ------------------------------------------------------------------------
NonAscii == {"U+00B7", "U+00B0"}

\* raw_str.encode("ascii", "ignore").decode()
str2ascii(raw_str) == SelectSeq(raw_str, LAMBDA c : c \notin NonAscii)

\* ------------------------------------------------------------------------
\* Lines of the xml file, by what get_data can tell apart
\* ------------------------------------------------------------------------
SignalsOpen == [t |-> "<Signals>"]
SignalsClose == [t |-> "</Signals>"]
Signal(n, u) == [t |-> "<Signal/>", name |-> n, unit |-> u]
\* a line whose strip() starts with <Value>; numeric says whether float() takes the text
Value(num, v) == [t |-> "<Value>", numeric |-> num, val |-> v]
ScanLine == [t |-> "<Scan>"]
OtherLine == [t |-> "other"]

\* get_name_and_unit: the text between the first pair of quotes after the last
\* Name= / Unit=; a line without them has no element [1] (IndexError)
HasNameAndUnit(line) == line.t = "<Signal/>"
get_name_and_unit(line) == <<line.name, line.unit>>

\* get_data_value: dtype(text between <Value> and </Value>); ValueError otherwise
ValueParses(line) == line.numeric
get_data_value(line) == line.val

\* np.inf, the limit when max_lines is None
Inf == -1

\* row_count >= max_lines
LimitReached(rc, ml) == ml # Inf /\ rc >= ml

\* ------------------------------------------------------------------------
\* Input streams
\* ------------------------------------------------------------------------
BodyAlphabet == {Value(TRUE, 1), Value(TRUE, 2), Value(FALSE, 0), ScanLine, OtherLine}

Headers ==
    { <<SignalsOpen, Signal("A", "kN"), SignalsClose>>,
      <<OtherLine, SignalsOpen, Signal("A", "kN"), Signal("B", "mm"), SignalsClose>> }

\* streams that end before the body, or whose descriptor block holds a foreign line
OddStreams ==
    { <<>>,
      <<OtherLine, ScanLine>>,
      <<SignalsOpen, Signal("A", "kN")>>,
      <<SignalsOpen, OtherLine, SignalsClose>>,
      <<SignalsOpen, SignalsClose, ScanLine>>,
      <<SignalsOpen, SignalsClose, Value(TRUE, 1)>> }

\* stream is one of the streams get_data is run on
IsStream(st) ==
    \/ \E h \in Headers, k \in 0..MaxBody : \E b \in [1..k -> BodyAlphabet] : st = h \o b
    \/ st \in OddStreams

Limits == {Inf} \cup (0..MaxLimit)

\* ------------------------------------------------------------------------
\* get_data, line by line
\* ------------------------------------------------------------------------
AtEOF == pos > Len(stream)
Line == stream[pos]

RdIdle == rd_pc = "idle" /\ rd_in = EmptyDict /\ rd_out = EmptyDict
CpIdle ==
    /\ cp_pc = "idle"
    /\ cp_in = EmptyDict
    /\ cp_data = EmptyDict
    /\ cp_out = EmptyDict
    /\ cp_again = EmptyDict

InitScan ==
    /\ IsStream(stream)
    /\ max_lines \in Limits
    /\ pc = "preamble"
    /\ pos = 1
    /\ names = <<>>
    /\ units = EmptyDict
    /\ data = EmptyDict
    /\ name_ind = 0
    /\ row_count = 0
    /\ error = ""
    /\ RdIdle
    /\ CpIdle

\* lines 83-85: read until the signal description list starts
SkipPreamble ==
    /\ pc = "preamble"
    /\ ~AtEOF
    /\ pos' = pos + 1
    /\ pc' = IF Line = SignalsOpen THEN "signals" ELSE "preamble"
    /\ UNCHANGED <<stream, max_lines, names, units, data, name_ind, row_count, error>>

\* data = {name: [] for name in names}; name_ind = 0; row_count = 0
StartBody(ns) == [n \in Range(ns) |-> <<>>]

\* lines 89-97: one line of the descriptor block
ReadSignal ==
    /\ pc = "signals"
    /\ ~AtEOF
    /\ pos' = pos + 1
    /\ IF Line = SignalsClose
       THEN /\ pc' = "body"
            /\ data' = StartBody(names)
            /\ UNCHANGED <<names, units, error>>
       ELSE IF HasNameAndUnit(Line)
       THEN /\ names' = Append(names, get_name_and_unit(Line)[1])
            /\ units' = Put(units, get_name_and_unit(Line)[1], get_name_and_unit(Line)[2])
            /\ UNCHANGED <<pc, data, error>>
       ELSE /\ pc' = "failed"
            /\ error' = "IndexError"
            /\ UNCHANGED <<names, units, data>>
    /\ UNCHANGED <<stream, max_lines, name_ind, row_count>>

\* lines 99-102: a value line goes to the channel name_ind points at
BodyValue ==
    /\ pc = "body"
    /\ ~AtEOF
    /\ Line.t = "<Value>"
    /\ pos' = pos + 1
    /\ IF name_ind >= Len(names)
       THEN /\ pc' = "failed"
            /\ error' = "IndexError"
            /\ UNCHANGED <<data, name_ind>>
       ELSE IF ~ValueParses(Line)
       THEN /\ pc' = "failed"
            /\ error' = "ValueError"
            /\ UNCHANGED <<data, name_ind>>
       ELSE /\ data' = [data EXCEPT ![names[name_ind + 1]] = Append(@, get_data_value(Line))]
            /\ name_ind' = name_ind + 1
            /\ UNCHANGED <<pc, error>>
    /\ UNCHANGED <<stream, max_lines, names, units, row_count>>

\* a scan marker that leaves the read pointer where it is
BodyScan_keeps_pointer ==
    /\ pc = "body"
    /\ ~AtEOF
    /\ Line = ScanLine
    /\ pos' = pos + 1
    /\ name_ind' = name_ind
    /\ row_count' = row_count + 1
    /\ pc' = IF LimitReached(row_count + 1, max_lines) THEN "done" ELSE "body"
    /\ UNCHANGED <<stream, max_lines, names, units, data, error>>

\* lines 103-107 and 112-117: a scan marker closes the cycle; at the limit the
\* loop breaks and get_data returns
BodyScan ==
    /\ pc = "body"
    /\ ~AtEOF
    /\ Line = ScanLine
    /\ pos' = pos + 1
    /\ name_ind' = 0
    /\ row_count' = row_count + 1
    /\ pc' = IF LimitReached(row_count + 1, max_lines) THEN "done" ELSE "body"
    /\ UNCHANGED <<stream, max_lines, names, units, data, error>>

\* a body line that is neither a value nor a scan marker is passed over
BodyOther ==
    /\ pc = "body"
    /\ ~AtEOF
    /\ Line.t \notin {"<Value>", "<Scan>"}
    /\ pos' = pos + 1
    /\ UNCHANGED <<stream, max_lines, pc, names, units, data, name_ind, row_count, error>>

\* the file iterator is exhausted: every remaining for-loop is skipped and
\* lines 95-97 and 112-117 run
EndOfStream ==
    /\ pc \in {"preamble", "signals", "body"}
    /\ AtEOF
    /\ pc' = "done"
    /\ data' = IF pc = "body" THEN data ELSE StartBody(names)
    /\ UNCHANGED <<stream, max_lines, pos, names, units, name_ind, row_count, error>>

NextScan ==
    /\ \/ SkipPreamble
       \/ ReadSignal
       \/ BodyValue
       \/ BodyScan
       \/ BodyOther
       \/ EndOfStream
    /\ UNCHANGED <<rd_vars, cp_vars>>

SpecScan == InitScan /\ [][NextScan]_vars

\* ------------------------------------------------------------------------
\* Properties of get_data
\* ------------------------------------------------------------------------
Min(a, b) == IF a <= b THEN a ELSE b

\* the lines after the first </Signals> line
BodyOf(s) ==
    LET closes == {i \in 1..Len(s) : s[i] = SignalsClose}
    IN  IF closes = {} THEN <<>>
        ELSE SubSeq(s, (CHOOSE i \in closes : \A j \in closes : i <= j) + 1, Len(s))

\* the body is a whole number of cycles: one numeric value line per declared
\* channel, then one scan marker
WellFormedBody(b, nch) ==
    /\ Len(b) % (nch + 1) = 0
    /\ \A i \in 1..Len(b) :
          IF i % (nch + 1) = 0 THEN b[i] = ScanLine
          ELSE b[i].t = "<Value>" /\ b[i].numeric

ScanMarkers(b) == Cardinality({i \in 1..Len(b) : b[i] = ScanLine})

\* C1: whenever get_data returns, every declared channel's sequence has the same
\* length, the number of scan markers consumed (row_count), also for a stream
\* that ends inside a cycle and for a run stopped by max_lines.
C1_EqualLengths ==
    pc = "done" => \A n \in DOMAIN data : Len(data[n]) = row_count

\* C2: in the body phase a scan marker that arrives when fewer value lines than
\* declared channels were read in the current cycle makes get_data fail; the
\* cycle boundary is not accepted.
C2_ShortCycleFails ==
    [][(pc = "body" /\ ~AtEOF /\ Line = ScanLine /\ name_ind < Len(names))
          => (pc' = "failed" /\ row_count' = row_count)]_vars

\* C3: on a stream of c complete cycles get_data stops after min(max_lines, c)
\* cycles and returns that many samples per channel, for every max_lines >= 0;
\* without a limit it reads all c cycles.
C3_StopsAtLimit ==
    (pc = "done" /\ Len(names) > 0 /\ WellFormedBody(BodyOf(stream), Len(names))) =>
        LET c == ScanMarkers(BodyOf(stream))
            k == IF max_lines = Inf THEN c ELSE Min(max_lines, c)
        IN  /\ row_count = k
            /\ \A n \in DOMAIN data : Len(data[n]) = k

\* ------------------------------------------------------------------------
\* reduce_data
\* ------------------------------------------------------------------------
sensor_keys ==
    << <<"forc", "Axial Force">>, <<"torq", "Torsional Torque">>,
       <<"astr", "Axial Strain">>, <<"tstr", "Torsional Strain (ang)">> >>
disp_keys == << <<"disp", "Axial Displacement">>, <<"rota", "Torsional Rotation">> >>
cnt_keys == << <<"acnt", "Axial Segment Count">>, <<"tcnt", "Torsional Segment Count">> >>
trkey == "Running Time"
tkey == "time"

\* the entries of a key table whose raw channel is in raw_data
Available(keys, raw_data) == SelectSeq(keys, LAMBDA e : e[2] \in DOMAIN raw_data)
RawOf(keys, k) == (CHOOSE i \in 1..Len(keys) : keys[i][1] = k)

\* lines 200-204 and 210-214: data[key] = raw_data[name], dtypes[key] = sensor_dtype,
\* units[key] = str2ascii(raw_units[name]) for each entry of keys that is present
CopyChannels(fr, keys, raw_data, raw_units, sensor_dtype) ==
    LET av == {e[1] : e \in Range(Available(keys, raw_data))}
        src(k) == keys[RawOf(keys, k)][2]
    IN  [fr EXCEPT
          !.data = [k \in (DOMAIN fr.data) \cup av |->
                      IF k \in av THEN raw_data[src(k)] ELSE fr.data[k]],
          !.dtypes = [k \in (DOMAIN fr.dtypes) \cup av |->
                      IF k \in av THEN sensor_dtype ELSE fr.dtypes[k]],
          !.units = [k \in (DOMAIN fr.units) \cup av |->
                      IF k \in av THEN str2ascii(raw_units[src(k)]) ELSE fr.units[k]]]

\* lines 220-224 with join_cnt: cnt = 0, then cnt += raw_data[name][:] for each
\* counter present. cnt stays the int 0 when there is none.
RECURSIVE SumArrays(_)
SumArrays(arrs) ==
    IF Len(arrs) = 1 THEN arrs[1]
    ELSE ArrAdd(SumArrays(SliceButLast(arrs)), arrs[Len(arrs)])

JoinedCount(raw_data) ==
    LET av == Available(cnt_keys, raw_data)
    IN  IF Len(av) = 0 THEN [is_array |-> FALSE, arr |-> <<>>]
        ELSE [is_array |-> TRUE,
              arr |-> SumArrays([i \in 1..Len(av) |-> raw_data[av[i][2]]])]

\* the 1-based variant of the index list
EventIndex_onebased(c, cnt_tol) ==
    [i \in 1..Len(np_where(ArrGt(SliceFrom1(c), ArrAddScalar(SliceButLast(c), cnt_tol)))) |->
        np_where(ArrGt(SliceFrom1(c), ArrAddScalar(SliceButLast(c), cnt_tol)))[i] + 1]

\* np.where(c[1:] > (c[:-1] + cnt_tol))[0]
EventIndex(c, cnt_tol) ==
    np_where(ArrGt(SliceFrom1(c), ArrAddScalar(SliceButLast(c), cnt_tol)))

\* lines 221-233
SaveCounters(fr, raw_data, join_cnt, cnt_tol) ==
    IF join_cnt
    THEN LET cnt == JoinedCount(raw_data)
         IN  IF ~cnt.is_array
             THEN [fr EXCEPT !.error = "TypeError"]   \* cnt[1:] on the int 0
             ELSE [fr EXCEPT !.data = Put(@, "cnt", EventIndex(cnt.arr, cnt_tol)),
                             !.dtypes = Put(@, "cnt", "int64"),
                             !.units = Put(@, "cnt", <<"-">>)]
    ELSE LET av == {e[1] : e \in Range(Available(cnt_keys, raw_data))}
             src(k) == cnt_keys[RawOf(cnt_keys, k)][2]
         IN  [fr EXCEPT
               !.data = [k \in (DOMAIN fr.data) \cup av |->
                           IF k \in av THEN EventIndex(raw_data[src(k)], cnt_tol)
                           ELSE fr.data[k]],
               !.dtypes = [k \in (DOMAIN fr.dtypes) \cup av |->
                           IF k \in av THEN "int64" ELSE fr.dtypes[k]],
               !.units = [k \in (DOMAIN fr.units) \cup av |->
                           IF k \in av THEN <<"-">> ELSE fr.units[k]]]

\* lines 236-244: the time channel and its storage type
SaveTime(fr, raw_data, raw_units, time_accuracy) ==
    IF fr.error # "" \/ trkey \notin DOMAIN raw_data THEN fr
    ELSE IF Len(raw_data[trkey]) = 0
    THEN [fr EXCEPT !.error = "IndexError"]           \* data[tkey][-1] of an empty array
    ELSE [fr EXCEPT
           !.data = Put(@, tkey, raw_data[trkey]),
           !.units = Put(@, tkey, raw_units[trkey]),
           !.dtypes = Put(@, tkey,
               IF RGt(RDiv(raw_data[trkey][Len(raw_data[trkey])], time_accuracy), Num(10000000))
               THEN "float64" ELSE "float32")]

\* what the caller gets: the three dicts, or the exception
Outcome(fr) ==
    IF fr.error # ""
    THEN [error |-> fr.error, data |-> EmptyDict, units |-> EmptyDict, dtypes |-> EmptyDict]
    ELSE fr

reduce_data(raw_data, raw_units, save_disp, join_cnt, sensor_dtype, time_accuracy, cnt_tol) ==
    LET f0 == [error |-> "", data |-> EmptyDict, units |-> EmptyDict, dtypes |-> EmptyDict]
        f1 == CopyChannels(f0, sensor_keys, raw_data, raw_units, sensor_dtype)
        f2 == IF save_disp
              THEN CopyChannels(f1, disp_keys, raw_data, raw_units, sensor_dtype)
              ELSE f1
        f3 == SaveCounters(f2, raw_data, join_cnt, cnt_tol)
        f4 == SaveTime(f3, raw_data, raw_units, time_accuracy)
    IN  Outcome(f4)

\* ---- the raw datasets reduce_data is called on ----
RawNames ==
    {e[2] : e \in Range(sensor_keys) \cup Range(disp_keys) \cup Range(cnt_keys)} \cup {trkey}

\* unit strings as the machine writes them
MachineUnits ==
    [nm \in RawNames |->
        CASE nm = "Axial Force" -> <<"k", "N">>
          [] nm = "Torsional Torque" -> <<"N", "U+00B7", "m">>
          [] nm = "Axial Strain" -> <<"m", "m", "/", "m", "m">>
          [] nm = "Torsional Strain (ang)" -> <<"U+00B0">>
          [] nm = "Axial Displacement" -> <<"m", "m">>
          [] nm = "Torsional Rotation" -> <<"r", "a", "d">>
          [] nm = trkey -> <<"s", "e", "c">>
          [] OTHER -> <<"c", "y", "c", "l", "e", "s">>]

\* sample i of a channel that is not under study: counters step every second
\* sample, the running time advances 600 s per sample
PlainSample(nm, i) ==
    IF nm = trkey THEN Num(600 * i)
    ELSE IF nm \in {e[2] : e \in Range(cnt_keys)} THEN Num(i \div 2)
    ELSE Num(i)

Restrict(f, S) == [x \in S |-> f[x]]

ReduceArgs(raw_data, sd, jc, tol) ==
    [raw_data |-> raw_data,
     raw_units |-> Restrict(MachineUnits, DOMAIN raw_data),
     save_disp |-> sd, join_cnt |-> jc, sensor_dtype |-> "float32",
     time_accuracy |-> Frac(1, 10000), cnt_tol |-> tol]

\* every subset of the known channels, with plain samples
PresenceCase(args) ==
    \E present \in SUBSET RawNames, n \in 0..MaxSamples, sd \in BOOLEAN, jc \in BOOLEAN :
        args = ReduceArgs([nm \in present |-> [i \in 1..n |-> PlainSample(nm, i)]],
                          sd, jc, Frac(1, 10))

\* counter readings: whole and half cycles
CountValues == {Num(0), Frac(1, 2), Num(1)}
Tolerances == {Frac(1, 10), Frac(1, 2)}

\* one or both counters with every series of readings of one length
CounterCase(args) ==
    \E present \in (SUBSET {cnt_keys[1][2], cnt_keys[2][2]}) \ {{}}, n \in 0..MaxSamples,
       jc \in BOOLEAN, tol \in Tolerances :
        \E a \in [1..n -> CountValues], t \in [1..n -> CountValues] :
            args = ReduceArgs([nm \in present |-> IF nm = cnt_keys[1][2] THEN a ELSE t],
                              FALSE, jc, tol)

\* the series 0,0,0,1,1,2,2,2 on the axial counter, tolerance 0.1
ExampleSeries == <<Num(0), Num(0), Num(0), Num(1), Num(1), Num(2), Num(2), Num(2)>>
ExampleCases ==
    {ReduceArgs([nm \in {cnt_keys[1][2]} |-> ExampleSeries], FALSE, jc, Frac(1, 10)) :
        jc \in BOOLEAN}

\* the calls of reduce_data: a RawDataset holds sequences of one length
IsReduceInput(args) ==
    \/ PresenceCase(args)
    \/ CounterCase(args)
    \/ args \in ExampleCases

ScanIdle ==
    /\ stream = <<>> /\ max_lines = Inf /\ pc = "idle" /\ pos = 1 /\ names = <<>>
    /\ units = EmptyDict /\ data = EmptyDict /\ name_ind = 0 /\ row_count = 0 /\ error = ""

InitReduce ==
    /\ IsReduceInput(rd_in)
    /\ rd_pc = "call"
    /\ rd_out = EmptyDict
    /\ ScanIdle
    /\ CpIdle

\* data, units, dtypes = reduce_data(raw_data, raw_units, ...)
CallReduce ==
    /\ rd_pc = "call"
    /\ rd_out' = reduce_data(rd_in.raw_data, rd_in.raw_units, rd_in.save_disp, rd_in.join_cnt,
                             rd_in.sensor_dtype, rd_in.time_accuracy, rd_in.cnt_tol)
    /\ rd_pc' = "return"
    /\ UNCHANGED <<rd_in, scan_vars, cp_vars>>

NextReduce == CallReduce

SpecReduce == InitReduce /\ [][NextReduce]_vars

\* ------------------------------------------------------------------------
\* Properties of reduce_data
\* ------------------------------------------------------------------------
StrictlyIncreasing(q) == \A i, j \in 1..Len(q) : i < j => q[i] < q[j]

\* the 0-based indices i of a series c whose next sample is more than tol higher
Increments(c, tol) ==
    {i \in 0..(Len(c) - 2) : RGt(RSub(c[i + 2], c[i + 1]), tol)}

IsEventIndexOf(q, c, tol) == StrictlyIncreasing(q) /\ Range(q) = Increments(c, tol)

CountersIn(raw_data) == {e[2] : e \in Range(cnt_keys)} \cap DOMAIN raw_data

\* sample-wise sum of the counters present (at least one)
MergedSeries(raw_data) ==
    LET some == CHOOSE nm \in CountersIn(raw_data) : TRUE
        rest == CountersIn(raw_data) \ {some}
    IN  [i \in 1..Len(raw_data[some]) |->
            IF rest = {} THEN raw_data[some][i]
            ELSE RAdd(raw_data[some][i], raw_data[CHOOSE nm \in rest : TRUE][i])]

SourcesOf(k) ==
    IF k = "cnt" THEN {e[2] : e \in Range(cnt_keys)}
    ELSE IF k = tkey THEN {trkey}
    ELSE {e[2] : e \in {x \in Range(sensor_keys) \cup Range(disp_keys) \cup Range(cnt_keys) :
                          x[1] = k}}

\* C5: reduce_data never fails on a well-formed raw dataset, whichever known
\* channels it holds and whatever the options; an absent channel is left out and
\* the result has no key whose source channel is absent.
C5_ReduceNeverFails ==
    rd_pc = "return" =>
        /\ rd_out.error = ""
        /\ \A k \in DOMAIN rd_out.data : SourcesOf(k) \cap DOMAIN rd_in.raw_data # {}

\* ------------------------------------------------------------------------
\* compensate
\* ------------------------------------------------------------------------
\* unit strings
U_N == <<"N">>
U_kN == <<"k", "N">>
U_Nm == <<"N", "m">>
U_Nmm == <<"N", "m", "m">>
U_kNm == <<"k", "N", "m">>
U_kNmm == <<"k", "N", "m", "m">>
U_m == <<"m">>
U_mm == <<"m", "m">>
U_rad == <<"r", "a", "d">>
U_none == <<"-">>
U_sec == <<"s", "e", "c">>
U_s == <<"s">>
U_ratio(length_measure) == length_measure \o <<"/">> \o length_measure
U_inch == <<"i", "n", "c", "h">>

\* the variant whose astr unit is one that compensate accepts as input
fixed_units_ratio ==
    [forc |-> U_N, torq |-> U_Nmm, disp |-> U_mm, rota |-> U_rad, astr |-> U_ratio(U_mm),
     tstr |-> U_rad, time |-> U_s]

\* the units with which the data will be output
fixed_units ==
    [forc |-> U_N, torq |-> U_Nmm, disp |-> U_mm, rota |-> U_rad,
     astr |-> U_none, tstr |-> U_rad, time |-> U_s]

k_axial == Num(198710)
k_torsional == Num(25920000)
torque_per_force == Frac(901, 10000)
ext_cal_dia == Num(10)

NoError == [type |-> "", line |-> 0, arg |-> ""]
Raise(type, line, arg) == [type |-> type, line |-> line, arg |-> arg]
Failed(fr) == fr.error.type # ""

\* int(data['tstr'].shape[0]*0.9)
Window(len) == (len * 9) \div 10

\* np.argmax / np.argmin of a non-empty array: 1-based position of the first
\* largest / smallest entry
ArgMax(a) ==
    CHOOSE i \in 1..Len(a) :
        /\ \A j \in 1..Len(a) : ~RGt(a[j], a[i])
        /\ \A j \in 1..(i - 1) : RGt(a[i], a[j])
ArgMin(a) ==
    CHOOSE i \in 1..Len(a) :
        /\ \A j \in 1..Len(a) : ~RGt(a[i], a[j])
        /\ \A j \in 1..(i - 1) : RGt(a[j], a[i])

\* lines 282-292: the sign of the shear strain scaling
DetectSign(d, tstr_sign) ==
    IF tstr_sign = 0 /\ "tstr" \in DOMAIN d
    THEN IF "torq" \notin DOMAIN d
         THEN [error |-> Raise("KeyError", 286, "torq"), tsgn |-> NaN]
         ELSE LET n == Window(Len(d["tstr"]))
                  head == SubSeq(d["torq"], 1, n)
              IN  IF Len(head) = 0
                  THEN [error |-> Raise("ValueError", 286, "argmax of empty"), tsgn |-> NaN]
                  ELSE LET i_max == ArgMax(head)
                           i_min == ArgMin(head)
                       IN  [error |-> NoError,
                            tsgn |-> RSign(RDiv(RSub(d["torq"][i_max], d["torq"][i_min]),
                                                RSub(d["tstr"][i_max], d["tstr"][i_min])))]
    ELSE [error |-> NoError, tsgn |-> Num(tstr_sign)]

\* the table with the torque factor of kNm taken as that of Nm
scale_factors_kNm_as_Nm(tsgn, outer_diameter) ==
    << <<"forc", << <<U_N, Num(1)>>, <<U_kN, Num(1000)>> >> >>,
       <<"torq", << <<U_Nm, Num(-1000)>>, <<U_Nmm, Num(-1)>>,
                    <<U_kNm, Num(-1000)>>, <<U_kNmm, Num(-1000)>> >> >>,
       <<"disp", << <<U_m, Num(1000)>>, <<U_mm, Num(1)>> >> >>,
       <<"rota", << <<U_rad, Num(-1)>> >> >>,
       <<"astr", << <<U_ratio(U_mm), Num(1)>>, <<U_ratio(U_m), Num(1)>>,
                    <<U_ratio(U_inch), Num(1)>> >> >>,
       <<"tstr", << <<U_rad, RDiv(RMul(RNeg(tsgn), ext_cal_dia), outer_diameter)>> >> >>,
       <<"time", << <<U_sec, Num(1)>>, <<U_s, Num(1)>> >> >> >>

\* lines 296-304: per channel the accepted unit strings and their factors, in
\* the order the dict literal lists them
scale_factors(tsgn, outer_diameter) ==
    << <<"forc", << <<U_N, Num(1)>>, <<U_kN, Num(1000)>> >> >>,
       <<"torq", << <<U_Nm, Num(-1000)>>, <<U_Nmm, Num(-1)>>,
                    <<U_kNm, Num(-1000000)>>, <<U_kNmm, Num(-1000)>> >> >>,
       <<"disp", << <<U_m, Num(1000)>>, <<U_mm, Num(1)>> >> >>,
       <<"rota", << <<U_rad, Num(-1)>> >> >>,
       <<"astr", << <<U_ratio(U_mm), Num(1)>>, <<U_ratio(U_m), Num(1)>>,
                    <<U_ratio(U_inch), Num(1)>> >> >>,
       <<"tstr", << <<U_rad, RDiv(RMul(RNeg(tsgn), ext_cal_dia), outer_diameter)>> >> >>,
       <<"time", << <<U_sec, Num(1)>>, <<U_s, Num(1)>> >> >> >>

UnitsOf(table) == [i \in 1..Len(table) |-> table[i][1]]
Factor(table, unit) == table[CHOOSE i \in 1..Len(table) : table[i][1] = unit][2]

\* the report without the line of available units
UnknownUnitReport_nolist(key, unit, table) ==
    << [print |-> "Unknown unit", unit |-> unit, variable |-> key, units |-> <<>>],
       [print |-> "Consider adding additional unit conversions", unit |-> <<>>,
        variable |-> "", units |-> <<>>] >>

\* lines 311-313
UnknownUnitReport(key, unit, table) ==
    << [print |-> "Unknown unit", unit |-> unit, variable |-> key, units |-> <<>>],
       [print |-> "Available units are", unit |-> <<>>, variable |-> "", units |-> UnitsOf(table)],
       [print |-> "Consider adding additional unit conversions", unit |-> <<>>,
        variable |-> "", units |-> <<>>] >>

\* lines 305-315: the scaling loop over the first k entries of the table
RECURSIVE ScaleChannels(_, _, _, _)
ScaleChannels(fr, units_, sf, k) ==
    IF k = 0 THEN fr
    ELSE LET before == ScaleChannels(fr, units_, sf, k - 1)
             key == sf[k][1]
             table == sf[k][2]
         IN  IF Failed(before) \/ key \notin DOMAIN before.data THEN before
             ELSE IF units_[key] \notin Range(UnitsOf(table))
             THEN [before EXCEPT
                     !.error = Raise("KeyError", 314, units_[key]),
                     !.stdout = @ \o UnknownUnitReport(key, units_[key], table)]
             ELSE [before EXCEPT
                     !.data[key] = ArrScale(Factor(table, units_[key]), before.data[key])]

\* lines 318-326: machine stiffness
StiffnessComp(fr) ==
    LET f1 == IF Failed(fr) \/ "disp" \notin DOMAIN fr.data THEN fr
              ELSE IF "forc" \notin DOMAIN fr.data
              THEN [fr EXCEPT !.error = Raise("KeyError", 319, "forc")]
              ELSE [fr EXCEPT !.data["disp"] =
                        ArrSub(@, ArrDivScalar(fr.data["forc"], k_axial))]
        f2 == IF Failed(f1) \/ "rota" \notin DOMAIN f1.data THEN f1
              ELSE IF "torq" \notin DOMAIN f1.data
              THEN [f1 EXCEPT !.error = Raise("KeyError", 321, "torq")]
              ELSE [f1 EXCEPT !.data["rota"] =
                        ArrSub(@, ArrDivScalar(f1.data["torq"], k_torsional))]
    IN  IF Failed(f2) THEN f2
        ELSE [f2 EXCEPT !.stiffness_comp =
                IF {"disp", "rota"} \cap DOMAIN f2.data = {} THEN <<>>
                ELSE <<"Machine stiffness compensation:">>
                     \o (IF "disp" \in DOMAIN f2.data
                         THEN <<" disp = disp - forc * (5.032459e-06 mm/N)">> ELSE <<>>)
                     \o (IF "rota" \in DOMAIN f2.data
                         THEN <<" rota = rota - torq * (3.858025e-08 rad/Nmm)">> ELSE <<>>)]

\* the variant that leaves the torque alone when a channel is missing
CrossTalk_lenient(fr) ==
    IF Failed(fr) \/ {"torq", "forc"} \cap DOMAIN fr.data # {"torq", "forc"} THEN fr
    ELSE [fr EXCEPT !.data["torq"] =
              ArrSub(@, ArrScale(torque_per_force, fr.data["forc"]))]

\* line 329: data['torq'] -= data['forc']*torque_per_force
CrossTalk(fr) ==
    IF Failed(fr) THEN fr
    ELSE IF "torq" \notin DOMAIN fr.data
    THEN [fr EXCEPT !.error = Raise("KeyError", 329, "torq")]
    ELSE IF "forc" \notin DOMAIN fr.data
    THEN [fr EXCEPT !.error = Raise("KeyError", 329, "forc")]
    ELSE [fr EXCEPT !.data["torq"] =
              ArrSub(@, ArrScale(torque_per_force, fr.data["forc"]))]

\* the variant that keeps the unit strings as they came in
NewUnits_kept(d, units_) == [key \in DOMAIN d |-> units_[key]]

\* line 332
NewUnits(d, units_) ==
    [key \in DOMAIN d |-> IF key \in DOMAIN fixed_units THEN fixed_units[key] ELSE units_[key]]

\* str() of a forced sign
str(x) == IF x = Num(1) THEN "1" ELSE IF x = Num(-1) THEN "-1" ELSE "0"

\* lines 334-340. The conditional expression binds weaker than +: the text is
\* the first operand alone when the condition holds, the rest otherwise
Info(d, tstr_sign, tsgn, stiffness_comp) ==
    IF tstr_sign = 0 \/ "tstr" \notin DOMAIN d
    THEN <<"Rotation (torq,rota) reversed from machine">>
    ELSE <<"tstr_sign = " \o str(tsgn)>>
         \o stiffness_comp
         \o <<"Cross talk compensation:", " torq = torq - forc * (0.0901 Nmm/N)",
              "Reference: https://doi.org/10.1016/j.ijsolstr.2017.10.007">>

\* the variant that removes the cross talk before the machine compliance
Compensated_crosstalk_first(d, units_, outer_diameter, tstr_sign) ==
    LET sgn == DetectSign(d, tstr_sign)
        f0 == [data |-> d, error |-> sgn.error, stdout |-> <<>>, stiffness_comp |-> <<>>]
        sf == scale_factors(sgn.tsgn, outer_diameter)
        f1 == ScaleChannels(f0, units_, sf, Len(sf))
        f2 == CrossTalk(f1)
        f3 == StiffnessComp(f2)
    IN  [data |-> f3.data, error |-> f3.error, stdout |-> f3.stdout,
         tsgn |-> sgn.tsgn, stiffness_comp |-> f3.stiffness_comp]

\* the frame of compensate once it has returned or raised
Compensated(d, units_, outer_diameter, tstr_sign) ==
    LET sgn == DetectSign(d, tstr_sign)
        f0 == [data |-> d, error |-> sgn.error, stdout |-> <<>>, stiffness_comp |-> <<>>]
        sf == scale_factors(sgn.tsgn, outer_diameter)
        f1 == ScaleChannels(f0, units_, sf, Len(sf))
        f2 == StiffnessComp(f1)
        f3 == CrossTalk(f2)
    IN  [data |-> f3.data, error |-> f3.error, stdout |-> f3.stdout,
         tsgn |-> sgn.tsgn, stiffness_comp |-> f3.stiffness_comp]

\* what compensate hands back: (data, new_units, attributes), or the exception
ReturnOf(fr, units_, tstr_sign) ==
    IF Failed(fr)
    THEN [error |-> fr.error, stdout |-> fr.stdout, data |-> EmptyDict,
          units |-> EmptyDict, attributes |-> EmptyDict]
    ELSE [error |-> NoError, stdout |-> fr.stdout, data |-> fr.data,
          units |-> NewUnits(fr.data, units_),
          attributes |->
            [info |-> Info(fr.data, tstr_sign, fr.tsgn, fr.stiffness_comp),
             cross_talk_torque_per_force |-> torque_per_force,
             axial_stiffness |-> k_axial,
             torsional_stiffness |-> k_torsional,
             tstr_sign |-> fr.tsgn]]

\* compensate as its caller sees it
compensate(d, units_, outer_diameter, tstr_sign) ==
    ReturnOf(Compensated(d, units_, outer_diameter, tstr_sign), units_, tstr_sign)

\* ---- the reduced datasets compensate is called on ----
CompKeys == {"forc", "torq", "disp", "rota", "astr", "tstr", "time", "cnt"}

U_lbf == <<"l", "b", "f">>
U_deg == <<"d", "e", "g">>
U_min == <<"m", "i", "n">>

\* the units compensate itself writes
CanonUnits ==
    [forc |-> U_N, torq |-> U_Nmm, disp |-> U_mm, rota |-> U_rad, astr |-> U_ratio(U_mm),
     tstr |-> U_rad, time |-> U_s, cnt |-> U_none]

UnitProfiles ==
    { CanonUnits,
      [CanonUnits EXCEPT !.forc = U_kN, !.torq = U_Nm, !.time = U_sec],
      [CanonUnits EXCEPT !.forc = U_kN, !.torq = U_kNm, !.disp = U_m,
                         !.astr = U_ratio(U_m), !.time = U_sec],
      [CanonUnits EXCEPT !.forc = U_lbf],
      [CanonUnits EXCEPT !.forc = U_lbf, !.disp = U_inch],
      [CanonUnits EXCEPT !.tstr = U_deg],
      [CanonUnits EXCEPT !.time = U_min, !.torq = U_kNmm] }

Signs == {0, 1, -1}
Diameters == {Num(10), Num(20)}

\* sample i of a channel that is not under study; cnt is an event-index list
BaseSample(key, i) == IF key = "torq" THEN Num(10 * i) ELSE Num(i)
BaseArray(key, n) == IF key = "cnt" THEN <<0>> ELSE [i \in 1..n |-> BaseSample(key, i)]
\* the force is a load of whole kN: written in N it is a multiple of 1000
InUnit(key, up, a) == IF key = "forc" /\ up.forc = U_N THEN ArrScale(Num(1000), a) ELSE a

CompArgs(d, up, od, sg) ==
    [data |-> d, units |-> Restrict(up, DOMAIN d), outer_diameter |-> od, tstr_sign |-> sg]

\* every subset of the channels, every unit profile, plain samples
StructureCase(args) ==
    \E present \in SUBSET CompKeys, up \in UnitProfiles, n \in 0..MaxSamples,
       od \in Diameters, sg \in Signs :
        args = CompArgs([key \in present |-> InUnit(key, up, BaseArray(key, n))], up, od, sg)

SampleValues == {Num(-1), Num(1), Num(2)}

\* every torque and strain series, with and without displacement and rotation
SeriesCase(args) ==
    \E n \in 0..MaxSamples, sg \in Signs,
       present \in {{"forc", "torq", "tstr"}, {"forc", "torq", "tstr", "disp", "rota"}},
       up \in {u \in UnitProfiles : u.forc # U_lbf /\ u.tstr = U_rad /\ u.time # U_min} :
        \E tq \in [1..n -> SampleValues], ts \in [1..n -> SampleValues] :
            args = CompArgs([key \in present |->
                                IF key = "torq" THEN tq
                                ELSE IF key = "tstr" THEN ts
                                ELSE InUnit(key, up, BaseArray(key, n))],
                            up, Num(20), sg)

\* the calls of compensate
IsCompInput(args) == StructureCase(args) \/ SeriesCase(args)

InitComp ==
    /\ IsCompInput(cp_in)
    /\ cp_data = cp_in.data
    /\ cp_pc = "call"
    /\ cp_out = EmptyDict
    /\ cp_again = EmptyDict
    /\ ScanIdle
    /\ RdIdle

\* comp_data, comp_units, comp_attributes = compensate(data, units, outer_diameter, tstr_sign)
\* compensate works on the dict it is given: the caller's dict holds whatever
\* compensate had assigned when it returned or raised
CallCompensate ==
    /\ cp_pc = "call"
    /\ cp_out' = compensate(cp_data, cp_in.units, cp_in.outer_diameter, cp_in.tstr_sign)
    /\ cp_data' = Compensated(cp_data, cp_in.units, cp_in.outer_diameter, cp_in.tstr_sign).data
    /\ cp_pc' = "return"
    /\ UNCHANGED <<cp_in, cp_again, scan_vars, rd_vars>>

NextComp == CallCompensate

SpecComp == InitComp /\ [][NextComp]_vars

\* compensate(comp_data, comp_units, outer_diameter, tstr_sign): a second call,
\* on the dataset and the unit map the first call returned. The dataset is the
\* dict the caller passed to the first call, which compensate works on again;
\* cp_out keeps the values the first call returned
CallCompensateAgain ==
    /\ cp_pc = "return"
    /\ cp_out.error.type = ""
    /\ cp_again' = compensate(cp_out.data, cp_out.units, cp_in.outer_diameter, cp_in.tstr_sign)
    /\ cp_data' = Compensated(cp_out.data, cp_out.units, cp_in.outer_diameter,
                              cp_in.tstr_sign).data
    /\ cp_pc' = "again"
    /\ UNCHANGED <<cp_in, cp_out, scan_vars, rd_vars>>

NextCompTwice == CallCompensate \/ CallCompensateAgain

SpecCompTwice == InitComp /\ [][NextCompTwice]_vars

\* ------------------------------------------------------------------------
\* Properties of compensate
\* ------------------------------------------------------------------------
Returned == cp_pc = "return"
Succeeded == cp_pc = "return" /\ cp_out.error.type = ""
InKeys == DOMAIN cp_in.data

\* the channels with a conversion table, in table order, and their unit strings
TableKeys == <<"forc", "torq", "disp", "rota", "astr", "tstr", "time">>
AcceptedUnits(key) ==
    LET sf == scale_factors(Num(1), Num(1))
    IN  UnitsOf(sf[CHOOSE i \in 1..Len(sf) : sf[i][1] = key][2])
BadUnitKeys ==
    SelectSeq(TableKeys, LAMBDA k : k \in InKeys /\ cp_in.units[k] \notin Range(AcceptedUnits(k)))

\* sign detection raises before any channel is looked up in the tables
AutoDetect == cp_in.tstr_sign = 0 /\ "tstr" \in InKeys
DetectNoTorque == AutoDetect /\ "torq" \notin InKeys
DetectNoWindow == AutoDetect /\ "torq" \in InKeys /\ Window(Len(cp_in.data["tstr"])) = 0

IsMissingChannelError(e) ==
    /\ e.type = "KeyError"
    /\ e.line \in {286, 319, 321, 329}
    /\ e.arg \in {"forc", "torq"} \ InKeys
IsUnknownUnitError(e) == e.type = "KeyError" /\ e.line = 314

\* C6 as claimed: compensate on a dataset that lacks forc or torq fails with the
\* missing-channel error, whatever other channels are present and whatever the
\* forced sign, and returns no dataset.
C6_MissingChannelError ==
    (Returned /\ {"forc", "torq"} \ InKeys # {}) =>
        /\ IsMissingChannelError(cp_out.error)
        /\ cp_out.data = EmptyDict

\* C6 amended: compensate on a dataset that lacks forc or torq always fails and
\* returns no dataset. The error is the missing-channel error (a KeyError naming
\* the absent forc or torq) unless an earlier step raises first: sign detection
\* on a tstr of fewer than 2 samples (ValueError), or the scaling of a present
\* channel whose unit string is not accepted (the unknown-unit KeyError).
C6_MissingChannelFails ==
    (Returned /\ {"forc", "torq"} \ InKeys # {}) =>
        /\ cp_out.error.type # ""
        /\ cp_out.data = EmptyDict /\ cp_out.units = EmptyDict
        /\ IF DetectNoWindow THEN cp_out.error.type = "ValueError"
           ELSE IF Len(BadUnitKeys) > 0 /\ ~DetectNoTorque
           THEN IsUnknownUnitError(cp_out.error)
           ELSE IsMissingChannelError(cp_out.error)

\* torq is absent, the sign is forced, every unit is accepted: KeyError 'torq'
\* from the cross-talk line
C6_Witness ==
    /\ Returned
    /\ InKeys = {"forc", "tstr", "astr"}
    /\ cp_in.tstr_sign = 1
    /\ Len(BadUnitKeys) = 0
    /\ cp_out.error.line = 329 /\ cp_out.error.arg = "torq"

\* the unit strings an exception holds (the args of the KeyError)
UnitsCarried(e) == IF e.line = 314 THEN {e.arg} ELSE {}

\* C7 as claimed: an unaccepted unit string of a present known channel makes
\* compensate fail with the unknown-unit error, and the error itself carries the
\* unit strings accepted for that channel.
C7_UnknownUnitError ==
    (Returned /\ Len(BadUnitKeys) > 0) =>
        /\ IsUnknownUnitError(cp_out.error)
        /\ Range(AcceptedUnits(BadUnitKeys[1])) \subseteq UnitsCarried(cp_out.error)

\* C7 amended: unless sign detection raises first, an unaccepted unit string of
\* a present known channel makes compensate fail, with no dataset returned, with
\* the unknown-unit error for the first such channel in table order; the error
\* carries the offending unit string only, and the accepted unit strings of that
\* channel are printed, in table order, before the error is raised.
C7_UnknownUnitReported ==
    (Returned /\ Len(BadUnitKeys) > 0 /\ ~DetectNoTorque /\ ~DetectNoWindow) =>
        /\ IsUnknownUnitError(cp_out.error)
        /\ cp_out.error.arg = cp_in.units[BadUnitKeys[1]]
        /\ cp_out.data = EmptyDict
        /\ \E i \in 1..Len(cp_out.stdout) :
              /\ cp_out.stdout[i].print = "Available units are"
              /\ cp_out.stdout[i].units = AcceptedUnits(BadUnitKeys[1])
        /\ \E i \in 1..Len(cp_out.stdout) :
              /\ cp_out.stdout[i].print = "Unknown unit"
              /\ cp_out.stdout[i].variable = BadUnitKeys[1]
              /\ cp_out.stdout[i].unit = cp_in.units[BadUnitKeys[1]]

\* force comes in lbf (and displacement in inch): "N","kN" is printed
C7_Witness ==
    /\ Returned
    /\ {"forc", "torq", "disp"} \subseteq InKeys
    /\ cp_in.units["forc"] = U_lbf
    /\ Len(BadUnitKeys) = 2
    /\ IsUnknownUnitError(cp_out.error)
    /\ cp_out.stdout[2].units = <<U_N, U_kN>>

\* C8: after a successful compensate the unit map has exactly the keys of the
\* dataset, and forc, torq, disp, rota, astr, tstr, time carry N, Nmm, mm, rad,
\* -, rad, s, whatever accepted unit string they came in with.
C8_CanonicalUnits ==
    Succeeded =>
        /\ DOMAIN cp_out.units = DOMAIN cp_out.data
        /\ DOMAIN cp_out.data = InKeys
        /\ "forc" \in InKeys => cp_out.units["forc"] = <<"N">>
        /\ "torq" \in InKeys => cp_out.units["torq"] = <<"N", "m", "m">>
        /\ "disp" \in InKeys => cp_out.units["disp"] = <<"m", "m">>
        /\ "rota" \in InKeys => cp_out.units["rota"] = <<"r", "a", "d">>
        /\ "astr" \in InKeys => cp_out.units["astr"] = <<"-">>
        /\ "tstr" \in InKeys => cp_out.units["tstr"] = <<"r", "a", "d">>
        /\ "time" \in InKeys => cp_out.units["time"] = <<"s">>

\* all channels present, none of forc, torq, disp, astr, time in its output unit
C8_Witness ==
    /\ Succeeded
    /\ InKeys = CompKeys
    /\ cp_in.units["forc"] = U_kN /\ cp_in.units["torq"] = U_kNm
    /\ cp_in.units["disp"] = U_m /\ cp_in.units["time"] = U_sec
    /\ cp_out.units["cnt"] = U_none

\* C9: after a successful compensate on a dataset with tstr the sign that scales
\* tstr, recorded as tstr_sign, is exactly 1 or -1 (never 0 or undefined), also
\* when the two indices coincide or the two strain samples are equal, and it
\* scales every sample of tstr.
C9_SignIsPlusMinusOne ==
    (Succeeded /\ "tstr" \in InKeys) =>
        /\ cp_out.attributes.tstr_sign \in {Num(1), Num(-1)}
        /\ \A i \in 1..Len(cp_in.data["tstr"]) :
              cp_out.data["tstr"][i] =
                 RMul(RDiv(RMul(RNeg(cp_out.attributes.tstr_sign), Num(10)),
                           cp_in.outer_diameter),
                      cp_in.data["tstr"][i])

KiloUnits == Succeeded /\ cp_in.units["forc"] = U_kN /\ cp_in.units["torq"] = U_kNm
ExampleIn ==
    /\ cp_in.data["forc"] = <<Num(1), Num(2), Num(3)>>
    /\ cp_in.data["torq"] = <<Num(10), Num(20), Num(30)>>

\* the returned force and torque for the factors ffac and tfac
Normalized(ffac, tfac) ==
    /\ cp_out.data["forc"] = [i \in 1..Len(cp_in.data["forc"]) |->
                                 RMul(Num(ffac), cp_in.data["forc"][i])]
    /\ cp_out.data["torq"] = [i \in 1..Len(cp_in.data["torq"]) |->
                                 RSub(RMul(Num(tfac), cp_in.data["torq"][i]),
                                      RMul(RMul(Num(ffac), cp_in.data["forc"][i]),
                                           Frac(901, 10000)))]

\* C10 as claimed: force in kN is normalized by 1000 and torque in kNm by -1000;
\* force 1,2,3 kN becomes 1000,2000,3000 N, torque 10,20,30 kNm becomes
\* -10000,-20000,-30000 Nmm, and the returned torque is that torque minus the
\* normalized force times 0.0901.
C10_KiloFactors ==
    KiloUnits =>
        /\ Normalized(1000, -1000)
        /\ ExampleIn =>
              /\ cp_out.data["forc"] = <<Num(1000), Num(2000), Num(3000)>>
              /\ cp_out.data["torq"] =
                    <<Frac(-100000 - 901, 10), Frac(-200000 - 1802, 10),
                      Frac(-300000 - 2703, 10)>>

\* C10 amended: force in kN is normalized by 1000 and torque in kNm by -1000000;
\* force 1,2,3 kN becomes 1000,2000,3000 N, torque 10,20,30 kNm becomes
\* -10000000,-20000000,-30000000 Nmm, and the returned torque is that torque
\* minus the normalized force times 0.0901, element by element.
C10_KiloFactorsMillion ==
    KiloUnits =>
        /\ Normalized(1000, -1000000)
        /\ ExampleIn =>
              /\ cp_out.data["forc"] = <<Num(1000), Num(2000), Num(3000)>>
              /\ cp_out.data["torq"] =
                    <<Frac(-100000000 - 901, 10), Frac(-200000000 - 1802, 10),
                      Frac(-300000000 - 2703, 10)>>

\* force 1,2,3 kN and torque 10,20,30 kNm, outer diameter 20 mm
C10_Witness ==
    /\ KiloUnits
    /\ InKeys = {"forc", "torq"}
    /\ ExampleIn
    /\ cp_in.outer_diameter = Num(20)
    /\ cp_out.data["torq"][3] = Frac(-300002703, 10)

\* the clauses of the info report
RotationClause == "Rotation (torq,rota) reversed from machine"
CrossTalkClause == "Cross talk compensation:"
DispLine == " disp = disp - forc * (5.032459e-06 mm/N)"
RotaLine == " rota = rota - torq * (3.858025e-08 rad/Nmm)"

\* C11: the info report of every successful compensate has a clause for each
\* correction applied and none for one that was not: the cross-talk clause and
\* the rotation-reversal clause are in every report, the disp stiffness line is
\* there exactly when disp is in the dataset and the rota stiffness line exactly
\* when rota is, whether the sign was detected or forced.
C11_InfoClauses ==
    Succeeded =>
        LET info == Range(cp_out.attributes.info)
        IN  /\ CrossTalkClause \in info
            /\ RotationClause \in info
            /\ DispLine \in info <=> "disp" \in InKeys
            /\ RotaLine \in info <=> "rota" \in InKeys

\* the body lines get_data has consumed so far
ConsumedBody ==
    LET b == BodyOf(stream)
    IN  SubSeq(b, 1, (pos - 1) - (Len(stream) - Len(b)))

\* the position of the last scan marker of b before line i (0 when none)
LastScanBefore(b, i) ==
    LET ms == {m \in 1..(i - 1) : b[m] = ScanLine}
    IN  IF ms = {} THEN 0 ELSE CHOOSE m \in ms : \A x \in ms : x <= m

\* how many value lines b holds after position from, up to position to
ValuesBetween(b, from, to) ==
    Cardinality({m \in (from + 1)..to : b[m].t = "<Value>"})

\* line i of b is the k-th value line since the last scan marker
IsKthValue(b, i, k) ==
    b[i].t = "<Value>" /\ ValuesBetween(b, LastScanBefore(b, i), i) = k

\* the values of the lines of b that are k-th in their cycle, in stream order
KthValues(b, k) ==
    LET picked == SelectSeq([i \in 1..Len(b) |-> i], LAMBDA i : IsKthValue(b, i, k))
    IN  [j \in 1..Len(picked) |-> b[picked[j]].val]

\* C12: while get_data is in the body (and when it has returned), channel k in
\* descriptor order holds exactly the values of the consumed lines that were
\* the k-th value line since the last scan marker or the body's start, the read
\* pointer counts the value lines since that marker, so it is at the first
\* channel right after every scan marker, and on a well-formed stream sample j
\* of channel k is the k-th value of cycle j.
C12_KthValueToKthChannel ==
    pc \in {"body", "done"} =>
        LET b == ConsumedBody
            nch == Len(names)
        IN  /\ \A k \in 1..nch : data[names[k]] = KthValues(b, k)
            /\ pc = "body" =>
                  name_ind = ValuesBetween(b, LastScanBefore(b, Len(b) + 1), Len(b))
            /\ (pc = "body" /\ Len(b) > 0 /\ b[Len(b)] = ScanLine) => name_ind = 0
            /\ WellFormedBody(b, nch) =>
                  \A k \in 1..nch : \A j \in 1..Len(data[names[k]]) :
                      data[names[k]][j] = b[(j - 1) * (nch + 1) + k].val

\* two channels, one whole cycle read, the two channels holding different values
C12_Witness ==
    /\ pc \in {"body", "done"}
    /\ Len(names) = 2
    /\ row_count >= 1
    /\ WellFormedBody(ConsumedBody, 2)
    /\ data[names[1]] = <<1>>
    /\ data[names[2]] = <<2>>
    /\ name_ind = 0

\* channel key of the caller's dataset after unit normalization alone
NormalizedIn(key) ==
    LET sf == scale_factors(cp_out.attributes.tstr_sign, cp_in.outer_diameter)
        table == sf[CHOOSE i \in 1..Len(sf) : sf[i][1] = key][2]
    IN  ArrScale(Factor(table, cp_in.units[key]), cp_in.data[key])

\* C13: a successful compensate normalizes the units first, then removes the
\* machine compliance, then the cross talk: the returned disp is the normalized
\* disp minus the normalized forc over k_axial, the returned rota is the
\* normalized rota minus the normalized torq (cross talk still in it) over
\* k_torsional, the returned torq is the normalized torq minus the cross talk
\* of the normalized forc, every other channel is normalized at most, and a
\* compliance correction is made only for a channel that is present.
C13_CorrectionOrder ==
    Succeeded =>
        /\ DOMAIN cp_out.data = InKeys
        /\ cp_out.data["forc"] = NormalizedIn("forc")
        /\ cp_out.data["torq"] =
              ArrSub(NormalizedIn("torq"), ArrScale(torque_per_force, NormalizedIn("forc")))
        /\ "disp" \in InKeys =>
              cp_out.data["disp"] =
                  ArrSub(NormalizedIn("disp"), ArrDivScalar(NormalizedIn("forc"), k_axial))
        /\ "rota" \in InKeys =>
              cp_out.data["rota"] =
                  ArrSub(NormalizedIn("rota"), ArrDivScalar(NormalizedIn("torq"), k_torsional))
        /\ \A key \in InKeys \cap {"astr", "tstr", "time"} :
              cp_out.data[key] = NormalizedIn(key)
        /\ \A key \in InKeys \ Range(TableKeys) : cp_out.data[key] = cp_in.data[key]

\* force in kN, torque in Nm, disp and rota present: the compliance of rota is
\* computed from a torque that differs from the returned one
C13_Witness ==
    /\ Succeeded
    /\ {"disp", "rota"} \subseteq InKeys
    /\ cp_in.units["forc"] = U_kN
    /\ cp_in.units["torq"] = U_Nm
    /\ Len(cp_in.data["forc"]) = MaxSamples
    /\ cp_in.data["forc"][1] = Num(1)
    /\ cp_in.data["torq"][1] = Num(10)
    /\ cp_in.data["rota"][1] = Num(1)
    /\ cp_out.data["torq"][1] = Frac(-100901, 10)
    /\ cp_out.data["rota"][1] = RSub(Num(-1), Frac(-10000, 25920000))
    /\ cp_out.data["disp"][1] # NormalizedIn("disp")[1]

Reapplied == cp_pc = "again"

\* C14 as claimed: compensate applied again to the dataset and the canonical
\* unit map it returned, with the same outer diameter and the same sign
\* argument, succeeds and returns the arrays and the units of the first
\* application.
C14_Idempotent ==
    Reapplied =>
        /\ cp_again.error.type = ""
        /\ cp_again.data = cp_out.data
        /\ cp_again.units = cp_out.units

\* the factor the second application puts on tstr
SecondStrainFactor ==
    RDiv(RMul(RNeg(cp_again.attributes.tstr_sign), ext_cal_dia), cp_in.outer_diameter)

\* C14 amended: compensate applied again to the dataset and the canonical unit
\* map it returned fails with the unknown-unit error for the unit "-" when the
\* dataset holds astr; otherwise it succeeds, returns the same keys and the
\* same units, the same forc, time and unlisted channels, and corrects the
\* other arrays a second time: torq is reversed and loses the cross talk again,
\* disp loses forc/k_axial again, rota is reversed and loses the reversed
\* torq/k_torsional, tstr is scaled again.
C14_SecondApplication ==
    Reapplied =>
        LET d1 == cp_out.data
            d2 == cp_again.data
        IN  IF "astr" \in InKeys
            THEN /\ IsUnknownUnitError(cp_again.error)
                 /\ cp_again.error.arg = U_none
            ELSE /\ cp_again.error.type = ""
                 /\ cp_again.units = cp_out.units
                 /\ DOMAIN d2 = DOMAIN d1
                 /\ \A key \in DOMAIN d1 \ {"torq", "disp", "rota", "tstr"} : d2[key] = d1[key]
                 /\ d2["torq"] = ArrSub(ArrScale(Num(-1), d1["torq"]),
                                        ArrScale(torque_per_force, d1["forc"]))
                 /\ "disp" \in InKeys =>
                       d2["disp"] = ArrSub(d1["disp"], ArrDivScalar(d1["forc"], k_axial))
                 /\ "rota" \in InKeys =>
                       d2["rota"] = ArrSub(ArrScale(Num(-1), d1["rota"]),
                                           ArrDivScalar(ArrScale(Num(-1), d1["torq"]),
                                                        k_torsional))
                 /\ "tstr" \in InKeys =>
                       d2["tstr"] = ArrScale(SecondStrainFactor, d1["tstr"])

\* a second application that succeeds and returns another torque and another
\* rotation than the first
C14_Witness ==
    /\ Reapplied
    /\ cp_again.error.type = ""
    /\ {"rota", "disp", "tstr"} \subseteq InKeys
    /\ Len(cp_out.data["torq"]) = MaxSamples
    /\ cp_again.data["torq"] # cp_out.data["torq"]
    /\ cp_again.data["rota"] # cp_out.data["rota"]
    /\ cp_again.units = cp_out.units

\* a second application that fails on the canonical unit of astr
C14_WitnessStrainUnit ==
    /\ Reapplied
    /\ "astr" \in InKeys
    /\ cp_again.error.type = "KeyError"

\* ------------------------------------------------------------------------
\* reduce_data and compensate as the caller of either sees them
\* ------------------------------------------------------------------------
InitCalls == InitReduce \/ InitComp

NextCalls == NextReduce \/ NextComp

SpecCalls == InitCalls /\ [][NextCalls]_vars

\* C15: no call of reduce_data or compensate, successful or failing, changes
\* what the caller passed in: the raw dataset and its unit map hold the same
\* keys and values after reduce_data as before, and the reduced dataset and
\* its unit map hold the same keys and values after compensate as before.
C15_InputsUnchanged ==
    [][/\ rd_in' = rd_in
       /\ cp_in' = cp_in
       /\ cp_data' = cp_data]_vars

====
